---- MODULE Spec2Model ----
(***************************************************************************)
(* The submission workflow of the image comparison form (src/src/App.tsx): *)
(* the React state of App, the react-hook-form field values, and the       *)
(* asynchronous handlers fetchModels and onSubmit, each cut at its awaits. *)
(* One action is one browser task: a user event handler, or the arrival of *)
(* one HTTP response together with the continuation it resumes.            *)
(***************************************************************************)
EXTENDS Integers, Sequences, FiniteSets, TLC

\* ------------------------------------------------------------------ bounds
\* Number of submissions that pass validation and start their network calls.
MaxSubmits == 2

\* ------------------------------------------------------------- value space
\* null / undefined of a string-valued slot, and of an object-valued slot.
NULL == "null"
Undefined == "undefined"
None == <<>>
Some(x) == <<x>>

\* App.tsx:190  const maxFileSize = 5 * 1024 * 1024
maxFileSize == 5 * 1024 * 1024

\* A File is modelled by its size, the one attribute that decides control
\* flow; a FileList by the one-element sequence holding its first file.
FileSizes == {maxFileSize, maxFileSize + 1}
FileLists == {Some([size |-> s]) : s \in FileSizes}

\* What the user can type into the prompt, and what the service can echo.
UserPrompts == {"", "p"}
EchoPrompts == {"P"}

\* interface Model (index, default); name and description are display only.
Model(i, d) == [index |-> i, default |-> d]

\* Bodies the Model Registry Service can answer GET /models with.
RegistryResponses ==
    { <<>>,
      <<Model("m1", FALSE), Model("m2", TRUE)>>,
      <<Model("m1", FALSE), Model("m2", FALSE)>> }

\* Bodies the Upload Credential Service can answer with: which of the two
\* write URLs response.data.data carries.
PresignedResponses ==
    { [image1_presigned_url |-> a, image2_presigned_url |-> b] :
        a \in BOOLEAN, b \in BOOLEAN }

\* Bodies the Comparison Service can answer with (interface
\* ComparisonResponse): a summary and an optional prompt.
ComparisonResponses ==
    { [comparison_summary |-> "S1", prompt |-> Undefined],
      [comparison_summary |-> "S2", prompt |-> "P"] }

\* The messages the handlers pass to setError.
MsgModels == "Failed to load models. Please try again later."
MsgPresignedMissing == "Failed to get presigned URLs."
MsgPresignedError == "Failed to get presigned URLs. Please try again."
MsgUpload == "Failed to upload images to S3. Please try again."
MsgCompare == "Failed to compare images. Please try again."
MsgBothImages == "Please upload both images"
MsgTooLarge == "One or both files exceed the 5MB limit."
MsgRequired1 == "Image 1 is required"
MsgRequired2 == "Image 2 is required"

\* ------------------------------------------------------------------- state
VARIABLES
    loading,        \* useState loading
    response,       \* useState response: None or Some(body)
    error,          \* useState error: NULL or a message
    models,         \* useState models
    modelsLoading,  \* useState modelsLoading
    image1,         \* form field image1: None or a FileList
    image2,         \* form field image2
    customPrompt,   \* form field customPrompt
    selectedModel,  \* form field selectedModel
    errors,         \* formState.errors of the two required fields
    subs,           \* the onSubmit invocations that passed validation
    calls,          \* every HTTP request issued so far, in order
    evt             \* the event handled last ("edit": any form edit)

vars == <<loading, response, error, models, modelsLoading, image1, image2,
          customPrompt, selectedModel, errors, subs, calls, evt>>

NoErrors == [image1 |-> NULL, image2 |-> NULL]

Call(sid, kind) == [sid |-> sid, kind |-> kind]

\* evt names the browser event that was handled last, as it arrived: the user
\* action, or the HTTP response with the submission it belongs to and its body.
Evt(op, sid, arg) == [op |-> op, sid |-> sid, arg |-> arg]

\* useForm defaultValues, the useState initial values, and the mount effect
\* having issued GET /models.
Init ==
    /\ loading = FALSE
    /\ response = None
    /\ error = NULL
    /\ models = <<>>
    /\ modelsLoading = TRUE
    /\ image1 = None
    /\ image2 = None
    /\ customPrompt = ""
    /\ selectedModel = ""
    /\ errors = NoErrors
    /\ subs = <<>>
    /\ calls = <<Call(0, "models")>>
    /\ evt = Evt("mount", 0, NULL)

\* ----------------------------------------------------------------- helpers
\* validateFileSize with twice the limit.
validateFileSizeDouble(file, maxSize) == file.size <= maxSize * 2

\* validateFileSize with a strict comparison.
validateFileSizeStrict(file, maxSize) == file.size < maxSize

\* App.tsx:106  validateFileSize
validateFileSize(file, maxSize) == file.size <= maxSize

\* DefaultModel without the search for the default flag.
DefaultModelFirst(ms) == ms[1]

\* DefaultModel falling back to the last model of the list.
DefaultModelLast(ms) ==
    LET flagged == {i \in 1..Len(ms) : ms[i].default}
    IN  IF flagged = {}
        THEN ms[Len(ms)]
        ELSE ms[CHOOSE i \in flagged : \A j \in flagged : i <= j]

\* App.tsx:93 and 252  models.find((m) => m.default) || models[0]
DefaultModel(ms) ==
    LET flagged == {i \in 1..Len(ms) : ms[i].default}
    IN  IF flagged = {}
        THEN ms[1]
        ELSE ms[CHOOSE i \in flagged : \A j \in flagged : i <= j]

\* The disabled attribute without the loading flag, and without the test
\* for an empty model list.
SubmitDisabledNoLoading == modelsLoading \/ Len(models) = 0
SubmitDisabledNoEmpty == loading \/ modelsLoading

\* App.tsx:432-436  the submit button's disabled attribute
SubmitDisabled == loading \/ modelsLoading \/ Len(models) = 0

\* ModelSelect.tsx:36-58  the select is enabled only in the last branch
\* (the error branch needs models.length === 0, App.tsx:317)
SelectEnabled == ~modelsLoading /\ Len(models) > 0

\* The two fields without their required rules.
RequiredErrorsNone(data) == [image1 |-> NULL, image2 |-> NULL]

\* App.tsx:332 and 373  rules: required, as handleSubmit evaluates them
RequiredErrors(data) ==
    [image1 |-> IF data.image1 = None THEN MsgRequired1 ELSE NULL,
     image2 |-> IF data.image2 = None THEN MsgRequired2 ELSE NULL]

\* The test with || in place of &&.
HasEitherUrl(presignedData) ==
    presignedData.image1_presigned_url \/ presignedData.image2_presigned_url

\* App.tsx:123-126  the test getPresignedUrls makes on the answer
HasBothUrls(presignedData) ==
    presignedData.image1_presigned_url /\ presignedData.image2_presigned_url

\* The values handleSubmit hands to onSubmit.
FormValues ==
    [image1 |-> image1, image2 |-> image2,
     customPrompt |-> customPrompt, selectedModel |-> selectedModel]

\* The record of one onSubmit invocation: the await it is suspended at
\* ("done" once it has returned), each PUT it issued ("none" before it is
\* issued, "pending" while under way, then "ok" or "fail"), and the form
\* values it closed over, held until it has issued its last request.
NoData ==
    [image1 |-> None, image2 |-> None,
     customPrompt |-> NULL, selectedModel |-> NULL]

NewSub(data) ==
    [pc |-> "presign", up1 |-> "none", up2 |-> "none", data |-> data]

\* An invocation that has returned and has no request under way holds no
\* state any more.
Returned == [pc |-> "done", up1 |-> "none", up2 |-> "none", data |-> NoData]

Retire(s) ==
    IF s.pc = "done" /\ s.up1 # "pending" /\ s.up2 # "pending"
    THEN Returned
    ELSE s

Sids == 1..Len(subs)

\* --------------------------------------------------------- model registry
\* App.tsx:88-95 and 99-101  GET /models answered with a list
fetchModelsOk(fetchedModels) ==
    /\ modelsLoading
    /\ models' = fetchedModels
    /\ selectedModel' = IF Len(fetchedModels) > 0
                        THEN DefaultModel(fetchedModels).index
                        ELSE selectedModel
    /\ modelsLoading' = FALSE
    /\ evt' = Evt("models.reply", 0, fetchedModels)
    /\ UNCHANGED <<loading, response, error, image1, image2, customPrompt,
                   errors, subs, calls>>

\* App.tsx:96-101  GET /models failed
fetchModelsFail ==
    /\ modelsLoading
    /\ error' = MsgModels
    /\ modelsLoading' = FALSE
    /\ evt' = Evt("models.error", 0, NULL)
    /\ UNCHANGED <<loading, response, models, image1, image2, customPrompt,
                   selectedModel, errors, subs, calls>>

\* -------------------------------------------------------------- form edits
\* App.tsx:257-269  handleImageChange with a chosen file: field.onChange
\* stores the FileList, and the field then satisfies its required rule.
handleImageChange1(files) ==
    /\ image1' = files
    /\ errors' = [errors EXCEPT !.image1 = NULL]
    /\ evt' = Evt("edit", 0, NULL)
    /\ UNCHANGED <<loading, response, error, models, modelsLoading, image2,
                   customPrompt, selectedModel, subs, calls>>

handleImageChange2(files) ==
    /\ image2' = files
    /\ errors' = [errors EXCEPT !.image2 = NULL]
    /\ evt' = Evt("edit", 0, NULL)
    /\ UNCHANGED <<loading, response, error, models, modelsLoading, image1,
                   customPrompt, selectedModel, subs, calls>>

\* App.tsx:271-279  removeImage; its button is shown with the preview of a
\* chosen file (App.tsx:348, 389).
removeImage1 ==
    /\ image1 # None
    /\ image1' = None
    /\ evt' = Evt("edit", 0, NULL)
    /\ UNCHANGED <<loading, response, error, models, modelsLoading, image2,
                   customPrompt, selectedModel, errors, subs, calls>>

removeImage2 ==
    /\ image2 # None
    /\ image2' = None
    /\ evt' = Evt("edit", 0, NULL)
    /\ UNCHANGED <<loading, response, error, models, modelsLoading, image1,
                   customPrompt, selectedModel, errors, subs, calls>>

\* App.tsx:415-426  the prompt textarea
promptChange(text) ==
    /\ customPrompt # text
    /\ customPrompt' = text
    /\ evt' = Evt("edit", 0, NULL)
    /\ UNCHANGED <<loading, response, error, models, modelsLoading, image1,
                   image2, selectedModel, errors, subs, calls>>

\* ModelSelect.tsx:27-32 and App.tsx:319  choosing an option of the select
modelChange(i) ==
    /\ SelectEnabled
    /\ i \in 1..Len(models)
    /\ selectedModel # models[i].index
    /\ selectedModel' = models[i].index
    /\ evt' = Evt("edit", 0, NULL)
    /\ UNCHANGED <<loading, response, error, models, modelsLoading, image1,
                   image2, customPrompt, errors, subs, calls>>

\* handleReset that also ends the busy indication.
handleResetStopsLoading ==
    /\ image1' = None
    /\ image2' = None
    /\ customPrompt' = ""
    /\ errors' = NoErrors
    /\ response' = None
    /\ error' = NULL
    /\ loading' = FALSE
    /\ selectedModel' = IF Len(models) > 0 THEN DefaultModel(models).index
                        ELSE ""
    /\ evt' = Evt("reset", 0, NULL)
    /\ UNCHANGED <<models, modelsLoading, subs, calls>>

\* handleReset that leaves the model field empty.
handleResetNoReselect ==
    /\ image1' = None
    /\ image2' = None
    /\ customPrompt' = ""
    /\ errors' = NoErrors
    /\ response' = None
    /\ error' = NULL
    /\ selectedModel' = ""
    /\ evt' = Evt("reset", 0, NULL)
    /\ UNCHANGED <<loading, models, modelsLoading, subs, calls>>

\* App.tsx:243-255  handleReset; the Reset button is never disabled.
handleReset ==
    /\ image1' = None
    /\ image2' = None
    /\ customPrompt' = ""
    /\ errors' = NoErrors
    /\ response' = None
    /\ error' = NULL
    /\ selectedModel' = IF Len(models) > 0 THEN DefaultModel(models).index
                        ELSE ""
    /\ evt' = Evt("reset", 0, NULL)
    /\ UNCHANGED <<loading, models, modelsLoading, subs, calls>>

\* -------------------------------------------------------------- submission
\* onSubmit clearing the stored result before it validates.
onSubmitClearsFirst(data) ==
    IF data.image1 = None \/ data.image2 = None
    THEN /\ error' = MsgBothImages
         /\ loading' = FALSE
         /\ response' = None
         /\ UNCHANGED <<subs, calls>>
    ELSE LET file1 == data.image1[1]
             file2 == data.image2[1]
         IN  IF \/ ~validateFileSize(file1, maxFileSize)
                \/ ~validateFileSize(file2, maxFileSize)
             THEN /\ error' = MsgTooLarge
                  /\ loading' = FALSE
                  /\ response' = None
                  /\ UNCHANGED <<subs, calls>>
             ELSE /\ Len(subs) < MaxSubmits
                  /\ loading' = TRUE
                  /\ error' = NULL
                  /\ response' = None
                  /\ subs' = Append(subs, NewSub(data))
                  /\ calls' = Append(calls, Call(Len(subs) + 1, "presign"))

\* onSubmit without setResponse(null).
onSubmitKeepsResponse(data) ==
    IF data.image1 = None \/ data.image2 = None
    THEN /\ error' = MsgBothImages
         /\ loading' = FALSE
         /\ UNCHANGED <<response, subs, calls>>
    ELSE LET file1 == data.image1[1]
             file2 == data.image2[1]
         IN  IF \/ ~validateFileSize(file1, maxFileSize)
                \/ ~validateFileSize(file2, maxFileSize)
             THEN /\ error' = MsgTooLarge
                  /\ loading' = FALSE
                  /\ UNCHANGED <<response, subs, calls>>
             ELSE /\ Len(subs) < MaxSubmits
                  /\ loading' = TRUE
                  /\ error' = NULL
                  /\ response' = response
                  /\ subs' = Append(subs, NewSub(data))
                  /\ calls' = Append(calls, Call(Len(subs) + 1, "presign"))

\* -------------------------------------------------------------- submission
\* App.tsx:182-210  onSubmit(data) up to its first await. Every early return
\* passes through finally (App.tsx:238-240).
onSubmit(data) ==
    IF data.image1 = None \/ data.image2 = None
    THEN /\ error' = MsgBothImages
         /\ loading' = FALSE
         /\ UNCHANGED <<response, subs, calls>>
    ELSE LET file1 == data.image1[1]
             file2 == data.image2[1]
         IN  IF \/ ~validateFileSize(file1, maxFileSize)
                \/ ~validateFileSize(file2, maxFileSize)
             THEN /\ error' = MsgTooLarge
                  /\ loading' = FALSE
                  /\ UNCHANGED <<response, subs, calls>>
             ELSE /\ Len(subs) < MaxSubmits
                  /\ loading' = TRUE
                  /\ error' = NULL
                  /\ response' = None
                  /\ subs' = Append(subs, NewSub(data))
                  /\ calls' = Append(calls, Call(Len(subs) + 1, "presign"))

\* App.tsx:305  handleSubmit(onSubmit), fired by the submit button
\* (App.tsx:432-436): the required rules run first, and onSubmit is called
\* only when no field fails its rule.
handleSubmit ==
    /\ ~SubmitDisabled
    /\ LET data == FormValues
           errs == RequiredErrors(data)
       IN  IF errs # NoErrors
           THEN /\ errors' = errs
                /\ UNCHANGED <<loading, response, error, subs, calls>>
           ELSE /\ errors' = NoErrors
                /\ onSubmit(data)
    /\ evt' = Evt("submit", 0, NULL)
    /\ UNCHANGED <<models, modelsLoading, image1, image2, customPrompt,
                   selectedModel>>

\* getPresignedUrlsReply with uploadImages not awaited: the comparison is
\* requested together with the two PUTs.
getPresignedUrlsReplyNoAwait(sid, presignedData) ==
    /\ sid \in Sids
    /\ subs[sid].pc = "presign"
    /\ IF HasBothUrls(presignedData)
       THEN /\ subs' = [subs EXCEPT ![sid].pc = "compare",
                                    ![sid].up1 = "pending",
                                    ![sid].up2 = "pending",
                                    ![sid].data = NoData]
            /\ calls' = calls \o <<Call(sid, "put1"), Call(sid, "put2"),
                                   Call(sid, "compare")>>
            /\ UNCHANGED <<error, loading>>
       ELSE /\ error' = MsgPresignedMissing
            /\ loading' = FALSE
            /\ subs' = [subs EXCEPT ![sid] = Returned]
            /\ UNCHANGED calls
    /\ evt' = Evt("presign.reply", sid, presignedData)
    /\ UNCHANGED <<response, models, modelsLoading, image1, image2,
                   customPrompt, selectedModel, errors>>

\* App.tsx:122-131, 211-223 and 147-154  POST /get-presigned-urls answered.
\* With both write URLs onSubmit resumes and uploadImages issues the two
\* PUTs; otherwise it returns through setLoading(false).
getPresignedUrlsReply(sid, presignedData) ==
    /\ sid \in Sids
    /\ subs[sid].pc = "presign"
    /\ IF HasBothUrls(presignedData)
       THEN /\ subs' = [subs EXCEPT ![sid].pc = "upload",
                                    ![sid].up1 = "pending",
                                    ![sid].up2 = "pending"]
            /\ calls' = calls \o <<Call(sid, "put1"), Call(sid, "put2")>>
            /\ UNCHANGED <<error, loading>>
       ELSE /\ error' = MsgPresignedMissing
            /\ loading' = FALSE
            /\ subs' = [subs EXCEPT ![sid] = Returned]
            /\ UNCHANGED calls
    /\ evt' = Evt("presign.reply", sid, presignedData)
    /\ UNCHANGED <<response, models, modelsLoading, image1, image2,
                   customPrompt, selectedModel, errors>>

\* getPresignedUrlsFail with a catch that sends the request again.
getPresignedUrlsFailRetry(sid) ==
    /\ sid \in Sids
    /\ subs[sid].pc = "presign"
    /\ calls' = Append(calls, Call(sid, "presign"))
    /\ evt' = Evt("presign.error", sid, NULL)
    /\ UNCHANGED <<loading, response, error, models, modelsLoading, image1,
                   image2, customPrompt, selectedModel, errors, subs>>

\* App.tsx:132-136 and 211-214  the request failed
getPresignedUrlsFail(sid) ==
    /\ sid \in Sids
    /\ subs[sid].pc = "presign"
    /\ error' = MsgPresignedError
    /\ loading' = FALSE
    /\ subs' = [subs EXCEPT ![sid] = Returned]
    /\ evt' = Evt("presign.error", sid, NULL)
    /\ UNCHANGED <<response, models, modelsLoading, image1, image2,
                   customPrompt, selectedModel, errors, calls>>

\* putOk with Promise.race in place of Promise.all: the first PUT to succeed
\* resumes onSubmit.
putOkFirst(sid, s) ==
    /\ IF s.pc = "upload"
       THEN /\ subs' = [subs EXCEPT ![sid] =
                          [s EXCEPT !.pc = "compare", !.data = NoData]]
            /\ calls' = Append(calls, Call(sid, "compare"))
       ELSE /\ subs' = [subs EXCEPT ![sid] = Retire(s)]
            /\ UNCHANGED calls
    /\ UNCHANGED <<loading, response, error, models, modelsLoading, image1,
                   image2, customPrompt, selectedModel, errors>>

\* App.tsx:147-155 and 229-230  a PUT succeeded, s being the invocation with
\* that result entered. Promise.all fulfils when the last of its promises
\* fulfils; onSubmit then resumes and compareImages issues
\* POST /compare-images. After Promise.all has rejected, a PUT still under
\* way completes unobserved.
putOk(sid, s) ==
    /\ IF s.pc = "upload" /\ s.up1 = "ok" /\ s.up2 = "ok"
       THEN /\ subs' = [subs EXCEPT ![sid] =
                          [s EXCEPT !.pc = "compare", !.data = NoData]]
            /\ calls' = Append(calls, Call(sid, "compare"))
       ELSE /\ subs' = [subs EXCEPT ![sid] = Retire(s)]
            /\ UNCHANGED calls
    /\ UNCHANGED <<loading, response, error, models, modelsLoading, image1,
                   image2, customPrompt, selectedModel, errors>>

put1Ok(sid) ==
    /\ sid \in Sids
    /\ subs[sid].up1 = "pending"
    /\ putOk(sid, [subs[sid] EXCEPT !.up1 = "ok"])
    /\ evt' = Evt("put1.ok", sid, NULL)

put2Ok(sid) ==
    /\ sid \in Sids
    /\ subs[sid].up2 = "pending"
    /\ putOk(sid, [subs[sid] EXCEPT !.up2 = "ok"])
    /\ evt' = Evt("put2.ok", sid, NULL)

\* putFail with onSubmit ignoring the result of uploadImages: the message is
\* set and the comparison is requested all the same.
putFailContinues(sid, s) ==
    /\ IF s.pc = "upload"
       THEN /\ subs' = [subs EXCEPT ![sid] =
                          [s EXCEPT !.pc = "compare", !.data = NoData]]
            /\ calls' = Append(calls, Call(sid, "compare"))
            /\ error' = MsgUpload
       ELSE /\ subs' = [subs EXCEPT ![sid] = Retire(s)]
            /\ UNCHANGED <<error, calls>>
    /\ UNCHANGED <<loading, response, models, modelsLoading, image1, image2,
                   customPrompt, selectedModel, errors>>

\* App.tsx:147-160 and 224-227  a PUT failed, s being the invocation with
\* that result entered. Promise.all rejects with the first rejection, without
\* waiting for the other promise: the catch of uploadImages runs, and
\* onSubmit returns through setLoading(false).
putFail(sid, s) ==
    /\ IF s.pc = "upload"
       THEN /\ subs' = [subs EXCEPT ![sid] =
                          Retire([s EXCEPT !.pc = "done", !.data = NoData])]
            /\ error' = MsgUpload
            /\ loading' = FALSE
       ELSE /\ subs' = [subs EXCEPT ![sid] = Retire(s)]
            /\ UNCHANGED <<error, loading>>
    /\ UNCHANGED <<response, models, modelsLoading, image1, image2,
                   customPrompt, selectedModel, errors, calls>>

put1Fail(sid) ==
    /\ sid \in Sids
    /\ subs[sid].up1 = "pending"
    /\ putFail(sid, [subs[sid] EXCEPT !.up1 = "fail"])
    /\ evt' = Evt("put1.error", sid, NULL)

put2Fail(sid) ==
    /\ sid \in Sids
    /\ subs[sid].up2 = "pending"
    /\ putFail(sid, [subs[sid] EXCEPT !.up2 = "fail"])
    /\ evt' = Evt("put2.error", sid, NULL)

\* compareImagesOk without the test for a prompt in the answer.
compareImagesOkOverwrite(sid, comparisonRes) ==
    /\ sid \in Sids
    /\ subs[sid].pc = "compare"
    /\ response' = Some(comparisonRes)
    /\ customPrompt' = comparisonRes.prompt
    /\ loading' = FALSE
    /\ subs' = [subs EXCEPT ![sid] = Returned]
    /\ evt' = Evt("compare.reply", sid, comparisonRes)
    /\ UNCHANGED <<error, models, modelsLoading, image1, image2,
                   selectedModel, errors, calls>>

\* compareImagesOk without the finally block of onSubmit.
compareImagesOkKeepsLoading(sid, comparisonRes) ==
    /\ sid \in Sids
    /\ subs[sid].pc = "compare"
    /\ response' = Some(comparisonRes)
    /\ customPrompt' = IF comparisonRes.prompt # Undefined
                       THEN comparisonRes.prompt
                       ELSE customPrompt
    /\ subs' = [subs EXCEPT ![sid] = Returned]
    /\ evt' = Evt("compare.reply", sid, comparisonRes)
    /\ UNCHANGED <<loading, error, models, modelsLoading, image1, image2,
                   selectedModel, errors, calls>>

\* App.tsx:174 and 231-240  POST /compare-images answered: the body is
\* stored, and a prompt it carries overwrites the prompt field.
compareImagesOk(sid, comparisonRes) ==
    /\ sid \in Sids
    /\ subs[sid].pc = "compare"
    /\ response' = Some(comparisonRes)
    /\ customPrompt' = IF comparisonRes.prompt # Undefined
                       THEN comparisonRes.prompt
                       ELSE customPrompt
    /\ loading' = FALSE
    /\ subs' = [subs EXCEPT ![sid] = Returned]
    /\ evt' = Evt("compare.reply", sid, comparisonRes)
    /\ UNCHANGED <<error, models, modelsLoading, image1, image2,
                   selectedModel, errors, calls>>

\* compareImagesFail with a catch that sets no message.
compareImagesFailSilent(sid) ==
    /\ sid \in Sids
    /\ subs[sid].pc = "compare"
    /\ response' = None
    /\ loading' = FALSE
    /\ subs' = [subs EXCEPT ![sid] = Returned]
    /\ evt' = Evt("compare.error", sid, NULL)
    /\ UNCHANGED <<error, models, modelsLoading, image1, image2,
                   customPrompt, selectedModel, errors, calls>>

\* compareImagesFail with onSubmit writing the missing prompt of the null
\* result into the prompt field.
compareImagesFailClearsPrompt(sid) ==
    /\ sid \in Sids
    /\ subs[sid].pc = "compare"
    /\ error' = MsgCompare
    /\ response' = None
    /\ customPrompt' = ""
    /\ loading' = FALSE
    /\ subs' = [subs EXCEPT ![sid] = Returned]
    /\ evt' = Evt("compare.error", sid, NULL)
    /\ UNCHANGED <<models, modelsLoading, image1, image2, selectedModel,
                   errors, calls>>

\* App.tsx:175-179 and 231-240  the request failed: compareImages returns
\* null, which onSubmit stores as the response.
compareImagesFail(sid) ==
    /\ sid \in Sids
    /\ subs[sid].pc = "compare"
    /\ error' = MsgCompare
    /\ response' = None
    /\ loading' = FALSE
    /\ subs' = [subs EXCEPT ![sid] = Returned]
    /\ evt' = Evt("compare.error", sid, NULL)
    /\ UNCHANGED <<models, modelsLoading, image1, image2, customPrompt,
                   selectedModel, errors, calls>>

\* ------------------------------------------------------------ specification
Next ==
    \/ \E ms \in RegistryResponses : fetchModelsOk(ms)
    \/ fetchModelsFail
    \/ \E files \in FileLists : handleImageChange1(files)
    \/ \E files \in FileLists : handleImageChange2(files)
    \/ removeImage1
    \/ removeImage2
    \/ \E text \in UserPrompts : promptChange(text)
    \/ \E i \in 1..Len(models) : modelChange(i)
    \/ handleReset
    \/ handleSubmit
    \/ \E sid \in Sids, pd \in PresignedResponses :
          getPresignedUrlsReply(sid, pd)
    \/ \E sid \in Sids : getPresignedUrlsFail(sid)
    \/ \E sid \in Sids : put1Ok(sid)
    \/ \E sid \in Sids : put2Ok(sid)
    \/ \E sid \in Sids : put1Fail(sid)
    \/ \E sid \in Sids : put2Fail(sid)
    \/ \E sid \in Sids, cr \in ComparisonResponses : compareImagesOk(sid, cr)
    \/ \E sid \in Sids : compareImagesFail(sid)

Spec == Init /\ [][Next]_vars

\* The answer, a response or an error, to a request of submission sid.
Respond(sid) ==
    \/ \E pd \in PresignedResponses : getPresignedUrlsReply(sid, pd)
    \/ getPresignedUrlsFail(sid)
    \/ put1Ok(sid)
    \/ put2Ok(sid)
    \/ put1Fail(sid)
    \/ put2Fail(sid)
    \/ \E cr \in ComparisonResponses : compareImagesOk(sid, cr)
    \/ compareImagesFail(sid)

\* Every request is answered in the end: while requests are under way, the
\* answer to one of them is delivered eventually.
FairSpec == Spec /\ WF_vars(\E sid \in Sids : Respond(sid))

\* ---------------------------------------------------- workflow vocabulary
\* The WorkflowState of the design, read off the component's state: a
\* submission is in flight while loading is set; otherwise the workflow has
\* Failed when a message is held (the banner's, or a field's), has Succeeded
\* when a result is held, and is Idle when neither is.
ErrorHeld == error # NULL \/ errors # NoErrors
InFlight == loading
Failed == ~loading /\ ErrorHeld
Succeeded == ~loading /\ ~ErrorHeld /\ response # None
Idle == ~loading /\ ~ErrorHeld /\ response = None

Live == {sid \in Sids : subs[sid].pc # "done"}

Issued(sid, kind) == \E i \in 1..Len(calls) : calls[i] = Call(sid, kind)

\* The requests a step issues.
NewCalls == {calls'[i] : i \in (Len(calls) + 1)..Len(calls')}
NoNewCall == calls' = calls

Oversize(files) == files # None /\ files[1].size > maxFileSize

\* The selected model is the first one flagged default, or the first one of
\* the list when none is flagged.
SelectedIsDefault ==
    \/ \E i \in 1..Len(models) :
          /\ models[i].default
          /\ \A j \in 1..(i - 1) : ~models[j].default
          /\ selectedModel = models[i].index
    \/ /\ \A i \in 1..Len(models) : ~models[i].default
       /\ selectedModel = models[1].index

\* An invocation that has returned never resumes, and only an invocation
\* that has not returned issues a request in its name.
ReturnedIsFinal ==
    \A sid \in Sids :
        /\ subs[sid].pc = "done" => subs'[sid].pc = "done"
        /\ (\E c \in NewCalls : c.sid = sid) => subs[sid].pc # "done"

\* ------------------------------------------------------------------ claims
\* C1: a submit with image 1 or image 2 missing issues no network call and
\* ends Failed: loading is not set and the required message of each missing
\* field is held.
C1_MissingFileFails ==
    [][ (evt'.op = "submit" /\ (image1 = None \/ image2 = None))
        => /\ NoNewCall
           /\ subs' = subs
           /\ Failed'
           /\ image1 = None => errors'.image1 = MsgRequired1
           /\ image2 = None => errors'.image2 = MsgRequired2 ]_vars

C1_Witness ==
    /\ evt.op = "submit"
    /\ image1 = None
    /\ image2 # None
    /\ errors.image1 = MsgRequired1
    /\ ~loading
    /\ Len(calls) = 1

\* C2: a submit in which a chosen file is larger than 5 MiB issues no network
\* call and ends Failed; with both files chosen the message held is the
\* size limit's.
C2_OversizeFails ==
    [][ (evt'.op = "submit" /\ (Oversize(image1) \/ Oversize(image2)))
        => /\ NoNewCall
           /\ subs' = subs
           /\ Failed'
           /\ (image1 # None /\ image2 # None) => error' = MsgTooLarge ]_vars

C2_Witness ==
    /\ evt.op = "submit"
    /\ Oversize(image1)
    /\ image2 # None
    /\ ~Oversize(image2)
    /\ error = MsgTooLarge
    /\ ~loading
    /\ Len(calls) = 1

\* C3: when an upload of a submission fails after its upload targets were
\* issued, the workflow ends Failed with the upload message and the
\* submission never issues the comparison call: it has returned, it stays
\* returned, and a comparison call is issued only by a submission waiting for
\* its uploads, both of which have then succeeded.
C3_UploadFailureStopsWorkflow ==
    [][ /\ \A sid \in Sids :
             ( /\ evt'.sid = sid
               /\ evt'.op \in {"put1.error", "put2.error"}
               /\ subs[sid].pc = "upload" )
             => /\ Failed'
                /\ error' = MsgUpload
                /\ subs'[sid].pc = "done"
                /\ NoNewCall
        /\ \A sid \in Sids :
             Call(sid, "compare") \in NewCalls
             => /\ subs[sid].pc = "upload"
                /\ subs'[sid].up1 = "ok"
                /\ subs'[sid].up2 = "ok"
        /\ ReturnedIsFinal ]_vars

C3_Witness ==
    /\ evt.op = "put2.error"
    /\ subs[evt.sid] = Returned
    /\ Issued(evt.sid, "put2")
    /\ ~Issued(evt.sid, "compare")
    /\ error = MsgUpload
    /\ ~loading

\* C4 as claimed: a submission leaves the Uploading step, for the comparison
\* or for a terminal state, only when neither of its uploads is outstanding.
C4_LeavesUploadingAfterBoth ==
    \A sid \in Sids :
        subs[sid].pc \in {"compare", "done"}
        => subs[sid].up1 # "pending" /\ subs[sid].up2 # "pending"

\* C4 as amended: a submission proceeds to the comparison only with both
\* uploads succeeded; it has left the Uploading step with an upload still
\* outstanding only when the other upload has failed.
C4_JoinedOnSuccess ==
    \A sid \in Sids :
        /\ subs[sid].pc = "compare"
           => subs[sid].up1 = "ok" /\ subs[sid].up2 = "ok"
        /\ ( /\ subs[sid].pc = "done"
             /\ (subs[sid].up1 = "pending" \/ subs[sid].up2 = "pending") )
           => (subs[sid].up1 = "fail" \/ subs[sid].up2 = "fail")

C4_Witness ==
    \E sid \in Sids :
        /\ subs[sid].pc = "done"
        /\ subs[sid].up1 = "fail"
        /\ subs[sid].up2 = "pending"
        /\ Failed
        /\ error = MsgUpload

\* C5 as claimed: after reset() the workflow is Idle and, with a registry
\* loaded, the default model is selected.
C5_ResetRestoresIdle ==
    evt.op = "reset"
    => /\ Idle
       /\ Len(models) > 0 => SelectedIsDefault

\* C5 as amended: reset() clears the result and every message, selects the
\* default model when a registry is loaded and leaves the loading flag as it
\* was, so that the workflow is Idle unless a submission is in flight.
C5_ResetClears ==
    [][ evt'.op = "reset"
        => /\ response' = None
           /\ error' = NULL
           /\ errors' = NoErrors
           /\ loading' = loading
           /\ ~loading => Idle'
           /\ Len(models) > 0 => SelectedIsDefault' ]_vars

C5_Witness ==
    /\ evt.op = "reset"
    /\ loading
    /\ Len(models) = 2
    /\ models[2].default
    /\ selectedModel = models[2].index
    /\ response = None
    /\ error = NULL

\* C6: at most one submission is in flight, the submit action is disabled
\* while one is, and the loading flag is set exactly while one is.
C6_OneInFlight ==
    /\ Cardinality(Live) <= 1
    /\ Live # {} => SubmitDisabled
    /\ loading <=> Live # {}

C6_Witness ==
    /\ Len(subs) = 2
    /\ subs[1].pc = "done"
    /\ subs[1].up2 = "pending"
    /\ subs[2].pc = "upload"
    /\ SubmitDisabled

\* C7: when the comparison call fails the workflow ends Failed with the
\* comparison message and no result is stored.
C7_CompareFailure ==
    evt.op = "compare.error"
    => /\ Failed
       /\ error = MsgCompare
       /\ response = None

C7_Witness ==
    /\ evt.op = "compare.error"
    /\ Issued(evt.sid, "compare")
    /\ error = MsgCompare
    /\ response = None
    /\ ~loading

\* C8: when the comparison call succeeds the workflow ends Succeeded, the
\* stored summary is the one of the service's answer, and the prompt field
\* becomes the answer's prompt when it carries one and is unchanged otherwise.
C8_Success ==
    [][ evt'.op = "compare.reply"
        => /\ Succeeded'
           /\ error' = NULL
           /\ response'[1].comparison_summary = evt'.arg.comparison_summary
           /\ evt'.arg.prompt # Undefined => customPrompt' = evt'.arg.prompt
           /\ evt'.arg.prompt = Undefined => customPrompt' = customPrompt
      ]_vars

C8_Witness ==
    /\ evt.op = "compare.reply"
    /\ evt.arg.prompt = "P"
    /\ customPrompt = "P"
    /\ response = Some(evt.arg)
    /\ Succeeded

\* C9: when the upload-target request fails, or its answer lacks a write
\* URL, the workflow ends Failed and the submission issues neither an upload
\* nor the comparison call: it has returned and stays returned.
C9_UploadTargetFailure ==
    [][ /\ ( \/ evt'.op = "presign.error"
             \/ /\ evt'.op = "presign.reply"
                /\ ~( /\ evt'.arg.image1_presigned_url
                      /\ evt'.arg.image2_presigned_url ) )
           => /\ Failed'
              /\ error' \in {MsgPresignedError, MsgPresignedMissing}
              /\ subs'[evt'.sid].pc = "done"
              /\ NoNewCall
        /\ ReturnedIsFinal ]_vars

C9_Witness ==
    /\ evt.op = "presign.reply"
    /\ evt.arg.image1_presigned_url
    /\ ~evt.arg.image2_presigned_url
    /\ error = MsgPresignedMissing
    /\ ~loading
    /\ ~Issued(evt.sid, "put1")
    /\ ~Issued(evt.sid, "put2")

\* C10: once the model list has failed to load or has loaded empty, it stays
\* so: the submit action is disabled, and no request at all is issued, the
\* model list request included.
ModelsUnavailable == ~modelsLoading /\ Len(models) = 0

C10_FailedLoadIsTerminal ==
    /\ [](ModelsUnavailable
          => SubmitDisabled /\ calls = <<Call(0, "models")>> /\ subs = <<>>)
    /\ [][ModelsUnavailable => ModelsUnavailable' /\ NoNewCall]_vars

C10_Witness ==
    /\ ModelsUnavailable
    /\ evt.op = "edit"
    /\ image1 # None
    /\ image2 # None
    /\ error = MsgModels
    /\ SubmitDisabled

\* C11: when GET /models is answered with a non-empty list, that list is
\* stored and the selected model is the one flagged default in the answer,
\* or the answer's first model when none is flagged.
C11_DefaultSelectedOnLoad ==
    (evt.op = "models.reply" /\ Len(evt.arg) > 0)
    => /\ models = evt.arg
       /\ ~modelsLoading
       /\ \/ \E i \in 1..Len(evt.arg) :
                /\ evt.arg[i].default
                /\ \A j \in 1..(i - 1) : ~evt.arg[j].default
                /\ selectedModel = evt.arg[i].index
          \/ /\ \A i \in 1..Len(evt.arg) : ~evt.arg[i].default
             /\ selectedModel = evt.arg[1].index

C11_Witness ==
    /\ evt.op = "models.reply"
    /\ Len(evt.arg) = 2
    /\ ~evt.arg[1].default
    /\ ~evt.arg[2].default
    /\ selectedModel = evt.arg[1].index

\* C12: nothing is retried. A submission issues each of its four requests at
\* most once; no request is issued when a request fails or when the
\* comparison is answered; and an upload-target request is issued only by a
\* submit of the user, for a new submission.
CountCalls(sid, kind) ==
    Cardinality({i \in 1..Len(calls) : calls[i] = Call(sid, kind)})

PipelineKinds == {"presign", "put1", "put2", "compare"}

C12_NoRetry ==
    /\ [](\A i \in 1..Len(calls) :
            /\ calls[i].sid \in Sids \/ calls[i] = Call(0, "models")
            /\ CountCalls(calls[i].sid, calls[i].kind) = 1)
    /\ [][ /\ evt'.op \in {"presign.error", "put1.error", "put2.error",
                           "compare.error", "compare.reply"}
              => NoNewCall
           /\ \A c \in NewCalls :
                /\ c.kind \in PipelineKinds
                /\ c.kind = "presign"
                   => evt'.op = "submit" /\ c.sid = Len(subs) + 1 ]_vars

C12_Witness ==
    /\ evt.op = "presign.error"
    /\ CountCalls(evt.sid, "presign") = 1
    /\ Len(subs) = 2
    /\ evt.sid = 2
    /\ ~loading

\* C13: every failure exit of a submit (a validation failure, a failed or
\* incomplete upload-target answer, a failed upload, a failed comparison)
\* changes none of the form fields: the two files, the prompt and the
\* selected model are after it what they were before it.
FailureEvent ==
    \/ evt'.op = "submit" /\ ~loading'
    \/ evt'.op \in {"presign.error", "put1.error", "put2.error",
                    "compare.error"}
    \/ /\ evt'.op = "presign.reply"
       /\ ~( /\ evt'.arg.image1_presigned_url
             /\ evt'.arg.image2_presigned_url )

C14_RunsToCompletion ==
    /\ loading ~> (~loading /\ (Succeeded \/ Failed) /\ ~SubmitDisabled)
    /\ [][ \A sid \in Sids :
             (subs[sid].pc # "done" /\ subs'[sid].pc = "done")
             => /\ ~loading'
                /\ Succeeded' \/ Failed'
                /\ ~SubmitDisabled' ]_vars

C14_Witness ==
    /\ evt.op = "compare.reply"
    /\ subs[evt.sid] = Returned
    /\ Succeeded
    /\ ~SubmitDisabled
    /\ Len(subs) < MaxSubmits

\* C15: the steps of a submission are serialized. Its requests are issued in
\* the order upload targets, upload 1, upload 2, comparison; the uploads are
\* issued on the upload-target answer that carries both write URLs; the
\* comparison is issued on the success of one upload with the other already
\* succeeded; and a submission whose comparison is answered has issued
\* exactly these four requests, in this order.
KindsOf(sid) ==
    LET cs == SelectSeq(calls, LAMBDA c : c.sid = sid)
    IN  [i \in 1..Len(cs) |-> cs[i].kind]

FullPipeline == <<"presign", "put1", "put2", "compare">>

C15_Serialized ==
    /\ [](\A sid \in Sids :
            \E n \in {1, 3, 4} : KindsOf(sid) = SubSeq(FullPipeline, 1, n))
    /\ [](evt.op = "compare.reply" => KindsOf(evt.sid) = FullPipeline)
    /\ [][ \A c \in NewCalls :
             /\ c.kind \in {"put1", "put2"}
                => /\ evt'.op = "presign.reply"
                   /\ evt'.sid = c.sid
                   /\ evt'.arg.image1_presigned_url
                   /\ evt'.arg.image2_presigned_url
                   /\ subs[c.sid].pc = "presign"
             /\ c.kind = "compare"
                => /\ evt'.sid = c.sid
                   /\ subs[c.sid].pc = "upload"
                   /\ \/ evt'.op = "put1.ok" /\ subs[c.sid].up2 = "ok"
                      \/ evt'.op = "put2.ok" /\ subs[c.sid].up1 = "ok" ]_vars

C15_Witness ==
    /\ evt.op = "compare.reply"
    /\ evt.sid = 2
    /\ KindsOf(2) = FullPipeline
    /\ KindsOf(1) = FullPipeline
    /\ Succeeded

\* C16: the size ceiling is inclusive. A submit with both files present and
\* each of at most 5 * 1024 * 1024 bytes, that size included, starts the
\* workflow and issues the upload-target request; a submit with a file of one
\* byte more sets the size message and issues no request.
C16_CeilingInclusive ==
    [][ (evt'.op = "submit" /\ image1 # None /\ image2 # None)
        => IF /\ image1[1].size <= 5 * 1024 * 1024
              /\ image2[1].size <= 5 * 1024 * 1024
           THEN /\ NewCalls = {Call(Len(subs) + 1, "presign")}
                /\ loading'
                /\ error' = NULL
           ELSE /\ NoNewCall
                /\ subs' = subs
                /\ ~loading'
                /\ error' = MsgTooLarge ]_vars

C16_Witness ==
    /\ evt.op = "submit"
    /\ image1 # None /\ image1[1].size = 5 * 1024 * 1024
    /\ image2 # None /\ image2[1].size = 5 * 1024 * 1024
    /\ loading
    /\ Issued(Len(subs), "presign")

\* C17: a reset does not cancel a submission in flight and leaves the
\* loading flag alone: the step changes neither the flag, nor any submission,
\* nor the requests issued. The submission goes on from the cleared state:
\* the answer that follows the reset issues the requests that are due, a
\* comparison answer stores the result and the echoed prompt, and a failure
\* sets its message.
C17_ResetDoesNotCancel ==
    /\ [][ evt'.op = "reset"
           => /\ loading' = loading
              /\ subs' = subs
              /\ calls' = calls
              /\ response' = None
              /\ error' = NULL ]_vars
    /\ [][ (evt.op = "reset" /\ loading)
           => /\ evt'.op = "presign.reply"
                 => IF /\ evt'.arg.image1_presigned_url
                       /\ evt'.arg.image2_presigned_url
                    THEN NewCalls = {Call(evt'.sid, "put1"),
                                     Call(evt'.sid, "put2")}
                    ELSE error' = MsgPresignedMissing /\ ~loading'
              /\ evt'.op = "presign.error"
                 => error' = MsgPresignedError /\ ~loading'
              /\ (evt'.op = "put1.ok" /\ subs[evt'.sid].up2 = "ok")
                 => NewCalls = {Call(evt'.sid, "compare")}
              /\ (evt'.op = "put2.ok" /\ subs[evt'.sid].up1 = "ok")
                 => NewCalls = {Call(evt'.sid, "compare")}
              /\ ( /\ evt'.op \in {"put1.error", "put2.error"}
                   /\ subs[evt'.sid].pc = "upload" )
                 => error' = MsgUpload /\ ~loading'
              /\ evt'.op = "compare.reply"
                 => /\ response' = Some(evt'.arg)
                    /\ evt'.arg.prompt # Undefined
                       => customPrompt' = evt'.arg.prompt
                    /\ ~loading'
              /\ evt'.op = "compare.error"
                 => error' = MsgCompare /\ ~loading' ]_vars

C17_Witness ==
    /\ evt.op = "reset"
    /\ loading
    /\ response = None
    /\ error = NULL
    /\ \E sid \in Sids : subs[sid].pc = "compare"

\* C18: a submit that fails validation, by a missing file or by an oversized
\* one, changes only the error messages: the stored result, the loading
\* flag (false before and after), the form fields, the submissions and the
\* requests are as before. The message set is the field's required message
\* for a missing file and the size message for an oversized one.
C18_ValidationFailureFrame ==
    [][ ( /\ evt'.op = "submit"
          /\ \/ image1 = None \/ image2 = None
             \/ Oversize(image1) \/ Oversize(image2) )
        => /\ response' = response
           /\ ~loading /\ ~loading'
           /\ UNCHANGED <<models, modelsLoading, image1, image2,
                          customPrompt, selectedModel, subs, calls>>
           /\ IF image1 = None \/ image2 = None
              THEN /\ errors' # NoErrors
                   /\ error' = error
              ELSE /\ error' = MsgTooLarge
                   /\ errors' = NoErrors ]_vars

\* A result and the size message held together, after a submit that failed
\* validation.
C18_Witness ==
    /\ evt.op = "submit"
    /\ Oversize(image1)
    /\ response # None
    /\ error = MsgTooLarge
    /\ ~loading

\* C19: a submit that passes validation clears the held result and the held
\* error in the step that issues its first request, and whenever loading is
\* true no result is held.
C19_LoadingHoldsNoResult ==
    /\ [](loading => response = None)
    /\ [][ (evt'.op = "submit" /\ ~NoNewCall)
           => /\ response' = None
              /\ error' = NULL
              /\ loading' ]_vars

\* The second submission under way, the first one having stored a result:
\* the prompt field still holds the prompt the service echoed.
C19_Witness ==
    /\ evt.op = "submit"
    /\ loading
    /\ Len(subs) = 2
    /\ Issued(1, "compare")
    /\ customPrompt = "P"
    /\ response = None
    /\ error = NULL

\* C20: the selected model is empty or the index of a model of the loaded
\* registry, and the form values a comparison request is built from carry
\* the index of a model of the loaded registry.
RegistryIndexes == {models[i].index : i \in 1..Len(models)}

C20_ModelIndexKnown ==
    /\ [](selectedModel = "" \/ selectedModel \in RegistryIndexes)
    /\ [][ \A c \in NewCalls :
             c.kind = "compare"
             => subs[c.sid].data.selectedModel \in RegistryIndexes ]_vars

C20_Witness ==
    /\ evt.op \in {"put1.ok", "put2.ok"}
    /\ Issued(evt.sid, "compare")
    /\ Issued(2, "compare")
    /\ selectedModel = "m1"
    /\ models[2].default

====
